---------------------------- MODULE Spec2Model ----------------------------
(***************************************************************************)
(* Model of clean_data.py: the linear cleaning pipeline for the SOPP North *)
(* Carolina traffic-stop extracts.  One action per step of the script; the *)
(* working table raw_combined is a sequence of row blocks (a run-length    *)
(* encoding of the DataFrame: a block is n identical consecutive rows).    *)
(***************************************************************************)
EXTENDS Integers, Sequences, FiniteSets, TLC

(***************************************************************************)
(* Text.  Strings are TLA+ strings; a character is a string of length 1.   *)
(***************************************************************************)
UpperAlpha == "ABCDEFGHIJKLMNOPQRSTUVWXYZ"
LowerAlpha == "abcdefghijklmnopqrstuvwxyz"
Digits == "0123456789"
Whitespace == {" ", "\t", "\n", "\r"}

CharAt(s, i) == SubSeq(s, i, i)

CharsOf(alpha) == {CharAt(alpha, i) : i \in 1..Len(alpha)}

IndexIn(c, alpha) == CHOOSE i \in 1..Len(alpha) : CharAt(alpha, i) = c

\* the lowercase of every uppercase letter, the uppercase of every lowercase one
ToLower == [c \in CharsOf(UpperAlpha) |-> CharAt(LowerAlpha, IndexIn(c, UpperAlpha))]
ToUpper == [c \in CharsOf(LowerAlpha) |-> CharAt(UpperAlpha, IndexIn(c, LowerAlpha))]
DigitValue == [c \in CharsOf(Digits) |-> IndexIn(c, Digits) - 1]

LowerChar(c) == IF c \in DOMAIN ToLower THEN ToLower[c] ELSE c

UpperChar(c) == IF c \in DOMAIN ToUpper THEN ToUpper[c] ELSE c

IsCased(c) == c \in DOMAIN ToLower \/ c \in DOMAIN ToUpper

\* str.lower()
StrLower(s) ==
    LET RECURSIVE go(_)
        go(i) == IF i > Len(s) THEN "" ELSE LowerChar(CharAt(s, i)) \o go(i + 1)
    IN go(1)

\* str.upper()
StrUpper(s) ==
    LET RECURSIVE go(_)
        go(i) == IF i > Len(s) THEN "" ELSE UpperChar(CharAt(s, i)) \o go(i + 1)
    IN go(1)

\* str.strip(): leading and trailing whitespace removed
StrStrip(s) ==
    LET nonws == {i \in 1..Len(s) : CharAt(s, i) \notin Whitespace}
        first == CHOOSE i \in nonws : \A j \in nonws : i <= j
        last == CHOOSE i \in nonws : \A j \in nonws : i >= j
    IN IF nonws = {} THEN "" ELSE SubSeq(s, first, last)

\* str.title(): a cased character is uppercased when the previous character
\* is not cased, lowercased otherwise
StrTitle(s) ==
    LET RECURSIVE go(_, _)
        go(i, prevCased) ==
            IF i > Len(s) THEN ""
            ELSE LET c == CharAt(s, i)
                 IN (IF ~IsCased(c) THEN c
                     ELSE IF prevCased THEN LowerChar(c) ELSE UpperChar(c))
                    \o go(i + 1, IsCased(c))
    IN go(1, FALSE)

\* str.replace(old, new) for a one-character old
StrReplaceChar(s, old, new) ==
    LET RECURSIVE go(_)
        go(i) == IF i > Len(s) THEN ""
                 ELSE (IF CharAt(s, i) = old THEN new ELSE CharAt(s, i)) \o go(i + 1)
    IN go(1)

\* substring test
StrContains(s, sub) ==
    \E i \in 1..(Len(s) - Len(sub) + 1) : SubSeq(s, i, i + Len(sub) - 1) = sub

\* Series.str.contains(pat, case=False) for a pattern without metacharacters
StrContainsNoCase(s, sub) == StrContains(StrLower(s), StrLower(sub))

IsDigits(s) == Len(s) > 0 /\ \A i \in 1..Len(s) : CharAt(s, i) \in DOMAIN DigitValue

DigitVal(c) == DigitValue[c]

\* int() of a string of decimal digits
StrToNat(s) ==
    LET RECURSIVE go(_, _)
        go(i, acc) == IF i > Len(s) THEN acc ELSE go(i + 1, acc * 10 + DigitVal(CharAt(s, i)))
    IN go(1, 0)

\* str() of a natural number
NatToStr(n) ==
    LET RECURSIVE go(_)
        go(k) == IF k < 10 THEN CharAt(Digits, k + 1)
                 ELSE go(k \div 10) \o CharAt(Digits, (k % 10) + 1)
    IN go(n)

\* two-digit zero-padded field, as in str(datetime.time)
Pad2(n) == IF n < 10 THEN "0" \o NatToStr(n) ELSE NatToStr(n)


(***************************************************************************)
(* Cells.  A cell is a record [t, v]: t is the kind of value, v the value. *)
(* NaN, NaT and None are the one missing value [t |-> "nan"].              *)
(***************************************************************************)
NaN == [t |-> "nan", v |-> "nan"]
Str(s) == [t |-> "str", v |-> s]
Bool(b) == [t |-> "bool", v |-> b]
Num(n) == [t |-> "num", v |-> n]
Date(y, m, d) == [t |-> "date", v |-> <<y, m, d>>]
Time(h, m, s) == [t |-> "time", v |-> <<h, m, s>>]

\* Series.isnull() / isna() of one cell
IsNull(c) == c.t = "nan"

\* the default na_values of pandas.read_csv
NaValues == {"", "#N/A", "#N/A N/A", "#NA", "-1.#IND", "-1.#QNAN", "-NaN", "-nan",
             "1.#IND", "1.#QNAN", "<NA>", "N/A", "NA", "NULL", "NaN", "None",
             "n/a", "nan", "null"}
TrueValues == {"True", "TRUE", "true"}
FalseValues == {"False", "FALSE", "false"}

\* pandas.read_csv: the cells of one column of one file, from its tokens.
\* A token of na_values is NaN; the column is boolean when every other token is
\* a boolean token, numeric when every other token is a number, text otherwise.
ReadCsvColumn(tokens) ==
    LET present == {i \in 1..Len(tokens) : tokens[i] \notin NaValues}
        allBool == present # {} /\ \A i \in present : tokens[i] \in TrueValues \cup FalseValues
        allNum == present # {} /\ \A i \in present : IsDigits(tokens[i])
    IN [i \in 1..Len(tokens) |->
          IF i \notin present THEN NaN
          ELSE IF allBool THEN Bool(tokens[i] \in TrueValues)
          ELSE IF allNum THEN Num(StrToNat(tokens[i]))
          ELSE Str(tokens[i])]

\* Series.astype(str) of one cell
AsTypeStr(c) ==
    CASE c.t = "str" -> c.v
      [] c.t = "nan" -> "nan"
      [] c.t = "bool" -> IF c.v THEN "True" ELSE "False"
      [] c.t = "num" -> NatToStr(c.v)
      [] c.t = "date" -> NatToStr(c.v[1]) \o "-" \o Pad2(c.v[2]) \o "-" \o Pad2(c.v[3])
      [] c.t = "time" -> Pad2(c.v[1]) \o ":" \o Pad2(c.v[2]) \o ":" \o Pad2(c.v[3])

(***************************************************************************)
(* Dates and times.                                                        *)
(***************************************************************************)
IsLeap(y) == (y % 4 = 0 /\ y % 100 # 0) \/ y % 400 = 0

DaysInMonth(y, m) ==
    IF m = 2 THEN (IF IsLeap(y) THEN 29 ELSE 28)
    ELSE IF m \in {4, 6, 9, 11} THEN 30 ELSE 31

\* pd.to_datetime(..., errors="coerce") of one cell, for text in the ISO form
\* YYYY-MM-DD; text that is no date, and a missing cell, become NaT
ToDatetime(c) ==
    IF c.t # "str" THEN NaN
    ELSE LET s == c.v
             shaped == /\ Len(s) = 10
                       /\ CharAt(s, 5) = "-" /\ CharAt(s, 8) = "-"
                       /\ IsDigits(SubSeq(s, 1, 4))
                       /\ IsDigits(SubSeq(s, 6, 7))
                       /\ IsDigits(SubSeq(s, 9, 10))
             y == StrToNat(SubSeq(s, 1, 4))
             m == StrToNat(SubSeq(s, 6, 7))
             d == StrToNat(SubSeq(s, 9, 10))
         IN IF shaped /\ y >= 1 /\ m \in 1..12 /\ d \in 1..DaysInMonth(y, m)
            THEN Date(y, m, d) ELSE NaN

\* pd.to_datetime(..., format="%H:%M:%S", errors="coerce").dt.time of one
\* cell: hour, minute and second fields of one or two digits, in range
ToTime(c) ==
    IF c.t # "str" THEN NaN
    ELSE LET s == c.v
             colons == {i \in 1..Len(s) : CharAt(s, i) = ":"}
             c1 == CHOOSE i \in colons : \A j \in colons : i <= j
             c2 == CHOOSE i \in colons : \A j \in colons : i >= j
             fh == SubSeq(s, 1, c1 - 1)
             fm == SubSeq(s, c1 + 1, c2 - 1)
             fs == SubSeq(s, c2 + 1, Len(s))
             field(f, max) == IsDigits(f) /\ Len(f) <= 2 /\ StrToNat(f) <= max
         IN IF Cardinality(colons) = 2 /\ field(fh, 23) /\ field(fm, 59) /\ field(fs, 59)
            THEN Time(StrToNat(fh), StrToNat(fm), StrToNat(fs)) ELSE NaN

\* days from 1970-01-01 to the civil date (proleptic Gregorian)
DaysFromCivil(y, m, d) ==
    LET yy == IF m <= 2 THEN y - 1 ELSE y
        era == yy \div 400
        yoe == yy - era * 400
        mp == IF m > 2 THEN m - 3 ELSE m + 9
        doy == (153 * mp + 2) \div 5 + d - 1
        doe == yoe * 365 + yoe \div 4 - yoe \div 100 + doy
    IN era * 146097 + doe - 719468

DayNames == <<"Monday", "Tuesday", "Wednesday", "Thursday", "Friday", "Saturday", "Sunday">>

\* Series.dt.year / .dt.month / .dt.day_name() / .dt.hour of one cell
DtYear(c) == IF c.t = "date" THEN Num(c.v[1]) ELSE NaN
DtMonth(c) == IF c.t = "date" THEN Num(c.v[2]) ELSE NaN
DtDayName(c) ==
    IF c.t = "date"
    THEN Str(DayNames[((DaysFromCivil(c.v[1], c.v[2], c.v[3]) + 3) % 7) + 1])
    ELSE NaN
DtHour(c) == IF c.t = "time" THEN Num(c.v[1]) ELSE NaN


(***************************************************************************)
(* Configuration and fixed vocabularies of the script.                     *)
(***************************************************************************)
\* FILES, in the order of the dict
Cities == <<"Charlotte", "Durham", "Fayetteville", "Greensboro", "Raleigh", "Winston-Salem">>

CitySet == {Cities[i] : i \in 1..Len(Cities)}

\* the 29 columns every city file shares
RawSchema ==
    <<"raw_row_number", "date", "time", "location", "county_name", "subject_age",
      "subject_race", "subject_sex", "officer_id_hash", "department_name", "type",
      "arrest_made", "citation_issued", "warning_issued", "outcome",
      "contraband_found", "contraband_drugs", "contraband_weapons",
      "frisk_performed", "search_conducted", "search_person", "search_vehicle",
      "search_basis", "reason_for_frisk", "reason_for_search", "reason_for_stop",
      "raw_ethnicity", "raw_race", "raw_action_description">>

race_map ==
    [white |-> "white", black |-> "black", hispanic |-> "hispanic", other |-> "other",
     unknown |-> "unknown", na |-> "unknown", asian |-> "asian/pacific islander"]
    @@ ("asian/pacific islander" :> "asian/pacific islander")
    @@ ("pacific islander" :> "asian/pacific islander")
    @@ ("other/unknown" :> "unknown")

sex_map ==
    [male |-> "male", female |-> "female", m |-> "male", f |-> "female",
     na |-> "unknown", nan |-> "unknown"]

bool_map == ("TRUE" :> Bool(TRUE)) @@ ("FALSE" :> Bool(FALSE))

bool_cols ==
    <<"arrest_made", "citation_issued", "warning_issued", "contraband_found",
      "contraband_drugs", "contraband_weapons", "frisk_performed",
      "search_conducted", "search_person", "search_vehicle">>

keep_cols ==
    <<"date", "time", "city", "subject_race", "subject_sex", "subject_age",
      "reason_for_stop", "outcome", "search_conducted", "contraband_found",
      "arrested", "year", "month", "day_of_week", "hour", "outcome_missing">>

\* the sentinels of the outcome_missing flag and of the stop reason
OutcomeSentinels == {"nan", "na", ""}
ReasonSentinels == {"Nan", "Na", ""}

RoundDigits == 4
DropThreshold == 50

(***************************************************************************)
(* Tables.  A DataFrame is [columns, blocks]: columns is the sequence of   *)
(* column names, and a block [n, row] stands for n consecutive rows whose  *)
(* cells are row, a function from the column names.                        *)
(***************************************************************************)
EmptyFrame == [columns |-> <<>>, blocks |-> <<>>]

SeqSet(s) == {s[i] : i \in 1..Len(s)}

HasCol(df, name) == name \in SeqSet(df.columns)

ColIndex(cols, name) == CHOOSE i \in 1..Len(cols) : cols[i] = name

\* df[name] at block b
Cell(df, b, name) == df.blocks[b].row[name]

\* len(df)
NRows(df) ==
    LET RECURSIVE go(_)
        go(i) == IF i > Len(df.blocks) THEN 0 ELSE df.blocks[i].n + go(i + 1)
    IN go(1)

\* df[name] = values, val giving the new cell from the row: the column is
\* replaced in place, or appended when new
AssignColumn(df, name, val(_)) ==
    [columns |-> IF HasCol(df, name) THEN df.columns ELSE Append(df.columns, name),
     blocks |-> [b \in 1..Len(df.blocks) |->
                   [n |-> df.blocks[b].n,
                    row |-> (name :> val(df.blocks[b].row)) @@ df.blocks[b].row]]]

\* the subsequence of s at the indices that satisfy keep
FilterSeq(s, keep(_)) ==
    LET RECURSIVE go(_)
        go(i) == IF i > Len(s) THEN <<>>
                 ELSE (IF keep(i) THEN <<s[i]>> ELSE <<>>) \o go(i + 1)
    IN go(1)

\* df[names]: the projection on the listed columns, in the listed order
Project(df, names) ==
    [columns |-> names,
     blocks |-> [b \in 1..Len(df.blocks) |->
                   [n |-> df.blocks[b].n,
                    row |-> [c \in SeqSet(names) |-> Cell(df, b, c)]]]]

\* df.drop(columns=names, errors="ignore")
DropFrom(df, names) ==
    Project(df, FilterSeq(df.columns, LAMBDA i : df.columns[i] \notin SeqSet(names)))

\* number of rows whose cell in the column satisfies test
CountWhere(df, name, test(_)) ==
    LET RECURSIVE go(_)
        go(b) == IF b > Len(df.blocks) THEN 0
                 ELSE (IF test(Cell(df, b, name)) THEN df.blocks[b].n ELSE 0) + go(b + 1)
    IN go(1)

\* numpy.round half-to-even of num / den, den > 0
RoundHalfEven(num, den) ==
    LET q == num \div den
        r == num % den
    IN IF 2 * r < den THEN q
       ELSE IF 2 * r > den THEN q + 1
       ELSE IF q % 2 = 0 THEN q ELSE q + 1

RECURSIVE Pow10(_)
Pow10(k) == IF k = 0 THEN 1 ELSE 10 * Pow10(k - 1)

\* df.isnull().mean().round(4) of one column, in units of 10^-4 (so that the
\* percentage is this number / 100); NaN for a table without rows
MissRate(df, name) ==
    IF NRows(df) = 0 THEN NaN
    ELSE Num(RoundHalfEven(CountWhere(df, name, IsNull) * Pow10(RoundDigits), NRows(df)))

\* rate * 100 > 50
ExceedsThreshold(rate) ==
    rate.t = "num" /\ rate.v * 100 > DropThreshold * Pow10(RoundDigits)

\* the rows of df whose city is the given one
CitySubset(df, city) ==
    [df EXCEPT !.blocks =
        FilterSeq(df.blocks, LAMBDA b : Cell(df, b, "city").v = city)]


(***************************************************************************)
(* Row-wise transformations of the script.                                 *)
(***************************************************************************)
\* Series.map(dict) of one key: NaN for a key the dict does not hold
MapCell(k, map) == IF k \in DOMAIN map THEN map[k] ELSE NaN

\* Series.fillna(value)
FillNa(c, value) == IF IsNull(c) THEN value ELSE c

StrMap(map) == [k \in DOMAIN map |-> Str(map[k])]

\* the lookup without trimming and lowercasing first
NormRaceRawKey(c) == FillNa(MapCell(AsTypeStr(c), StrMap(race_map)), Str("unknown"))

NormRace(c) == FillNa(MapCell(StrLower(StrStrip(AsTypeStr(c))), StrMap(race_map)), Str("unknown"))

NormSex(c) == FillNa(MapCell(StrLower(StrStrip(AsTypeStr(c))), StrMap(sex_map)), Str("unknown"))

NormReason(c) ==
    LET titled == StrTitle(StrStrip(AsTypeStr(c)))
    IN IF titled \in ReasonSentinels THEN Str("Unknown") ELSE Str(titled)

\* the text methods applied to the column as read: a missing cell stays missing
NormOutcomeKeepMissing(c) == IF IsNull(c) THEN NaN ELSE Str(StrLower(StrStrip(AsTypeStr(c))))

NormOutcome(c) == Str(StrLower(StrStrip(AsTypeStr(c))))

\* the mapping followed by fillna(False)
CoerceBoolFillFalse(c) ==
    FillNa(MapCell(StrUpper(StrStrip(AsTypeStr(c))), bool_map), Bool(FALSE))

CoerceBool(c) == MapCell(StrUpper(StrStrip(AsTypeStr(c))), bool_map)

\* outcome.isin(["nan", "na", ""]) | outcome.isna()
OutcomeMissing(c) == Bool((c.t = "str" /\ c.v \in OutcomeSentinels) \/ IsNull(c))

\* outcome.str.contains("arrest", case=False, na=False)
OutcomeSaysArrest(c) == c.t = "str" /\ StrContainsNoCase(c.v, "arrest")

\* arrest_made == True
IsTrue(c) == c.t = "bool" /\ c.v

\* np.where(arrest_made != False, ...): a missing indicator counts as true
ArrestedMissingAsTrue(arrest_made, outcome) ==
    IF ~(arrest_made.t = "bool" /\ ~arrest_made.v) THEN Num(1)
    ELSE IF OutcomeSaysArrest(outcome) THEN Num(1) ELSE Num(0)

\* the outcome text alone
ArrestedFromOutcomeOnly(arrest_made, outcome) ==
    IF OutcomeSaysArrest(outcome) THEN Num(1) ELSE Num(0)

\* np.where(arrest_made == True, 1, np.where(contains, 1, 0))
Arrested(arrest_made, outcome) ==
    IF IsTrue(arrest_made) THEN Num(1)
    ELSE IF OutcomeSaysArrest(outcome) THEN Num(1) ELSE Num(0)

\* the hour with fillna(0)
HourOfZeroFilled(c) == FillNa(DtHour(ToTime(Str(AsTypeStr(c)))), Num(0))

\* hour: the time column is written as text and parsed again
HourOf(c) == DtHour(ToTime(Str(AsTypeStr(c))))

\* c.lower().replace(" ", "_")
RenameColumn(c) == StrReplaceChar(StrLower(c), " ", "_")

(***************************************************************************)
(* State.                                                                  *)
(***************************************************************************)
VARIABLES
    pc,               \* the step of the script that runs next
    error,            \* the exception that ended the run, "none" otherwise
    files,            \* the city files on disk: city -> [exists, header, blocks]
    frames,           \* the tables loaded so far
    raw_info,         \* city -> [rows, columns]
    raw_combined,     \* the working table
    total_raw_rows,
    raw_columns,
    missingness_city, \* city -> column -> rate
    overall_miss,     \* column -> rate
    cols_to_drop,
    n_outcome_missing,
    cleaned,          \* the final table
    out_csv,          \* nc_traffic_stops_cleaned.csv, [written, table]
    md                \* cleaning_summary.md, [written, ...]

vars == <<pc, error, files, frames, raw_info, raw_combined, total_raw_rows, raw_columns,
          missingness_city, overall_miss, cols_to_drop, n_outcome_missing, cleaned,
          out_csv, md>>

NoFile == [written |-> FALSE]
NoMap == [c \in {} |-> NaN]

\* pandas.read_csv(fp, low_memory=False)
ReadCsv(f) ==
    LET column == [i \in 1..Len(f.header) |->
                     ReadCsvColumn([k \in 1..Len(f.blocks) |-> f.blocks[k].tokens[i]])]
    IN [columns |-> f.header,
        blocks |-> [b \in 1..Len(f.blocks) |->
                      [n |-> f.blocks[b].n,
                       row |-> [c \in SeqSet(f.header) |->
                                  column[ColIndex(f.header, c)][b]]]]]

\* the columns of the frames in order of first appearance
RECURSIVE UnionColumns(_)
UnionColumns(fs) ==
    IF fs = <<>> THEN <<>>
    ELSE LET before == UnionColumns(SubSeq(fs, 1, Len(fs) - 1))
             last == fs[Len(fs)].columns
         IN before \o FilterSeq(last, LAMBDA i : last[i] \notin SeqSet(before))

\* pandas.concat(frames, ignore_index=True)
RECURSIVE ConcatBlocks(_, _)
ConcatBlocks(fs, cols) ==
    IF fs = <<>> THEN <<>>
    ELSE LET df == Head(fs)
             have == SeqSet(df.columns)
         IN [b \in 1..Len(df.blocks) |->
               [n |-> df.blocks[b].n,
                row |-> [c \in SeqSet(cols) |->
                           IF c \in have THEN Cell(df, b, c) ELSE NaN]]]
            \o ConcatBlocks(Tail(fs), cols)

\* the frames combined last file first
ConcatReversed(fs) ==
    LET reversed == [k \in 1..Len(fs) |-> fs[Len(fs) + 1 - k]]
        cols == UnionColumns(reversed)
    IN [columns |-> cols, blocks |-> ConcatBlocks(reversed, cols)]

Concat(fs) ==
    LET cols == UnionColumns(fs)
    IN [columns |-> cols, blocks |-> ConcatBlocks(fs, cols)]

Needs(df, names) == \A name \in names : HasCol(df, name)

\* an uncaught exception ends the run
Raise(e) ==
    /\ pc' = "aborted"
    /\ error' = e
    /\ UNCHANGED <<files, frames, raw_info, raw_combined, total_raw_rows, raw_columns,
                   missingness_city, overall_miss, cols_to_drop, n_outcome_missing,
                   cleaned, out_csv, md>>

(***************************************************************************)
(* The steps of the script.                                                *)
(***************************************************************************)
\* one iteration of the load loop: the table of the city's file, tagged
LoadedFrame(city) == AssignColumn(ReadCsv(files[city]), "city", LAMBDA row : Str(city))

\* 1. the load loop over FILES; a file that cannot be read ends the run
LoadFiles ==
    /\ pc = "load"
    /\ IF \E k \in 1..Len(Cities) : ~files[Cities[k]].exists
       THEN Raise("FileNotFoundError")
       ELSE /\ frames' = [k \in 1..Len(Cities) |-> LoadedFrame(Cities[k])]
            /\ raw_info' = [city \in CitySet |->
                              [rows |-> NRows(files[city]),
                               columns |-> files[city].header]]
            /\ pc' = "concat"
            /\ UNCHANGED <<error, files, raw_combined, total_raw_rows, raw_columns,
                           missingness_city, overall_miss, cols_to_drop,
                           n_outcome_missing, cleaned, out_csv, md>>

\* 1. the frames are combined
Combine ==
    /\ pc = "concat"
    /\ LET combined == Concat(frames)
       IN /\ raw_combined' = combined
          /\ total_raw_rows' = NRows(combined)
          /\ raw_columns' = combined.columns
    /\ pc' = "rename"
    /\ UNCHANGED <<error, files, frames, raw_info, missingness_city, overall_miss,
                   cols_to_drop, n_outcome_missing, cleaned, out_csv, md>>

\* df.rename(columns={c: c.lower().replace(" ", "_") for c in df.columns})
Rename(df) ==
    LET renamed == [i \in 1..Len(df.columns) |-> RenameColumn(df.columns[i])]
    IN [columns |-> renamed,
        blocks |-> [b \in 1..Len(df.blocks) |->
                      [n |-> df.blocks[b].n,
                       row |-> [c \in SeqSet(renamed) |->
                                  Cell(df, b, df.columns[ColIndex(renamed, c)])]]]]

\* 2. column names to lowercase snake_case
StandardizeNames ==
    /\ pc = "rename"
    /\ raw_combined' = Rename(raw_combined)
    /\ pc' = "parse"
    /\ UNCHANGED <<error, files, frames, raw_info, total_raw_rows, raw_columns,
                   missingness_city, overall_miss, cols_to_drop, n_outcome_missing,
                   cleaned, out_csv, md>>

\* 3. dates and times are parsed, the temporal features derived
ParseTemporal ==
    /\ pc = "parse"
    /\ IF ~Needs(raw_combined, {"date", "time"}) THEN Raise("KeyError")
       ELSE LET d1 == AssignColumn(raw_combined, "date", LAMBDA row : ToDatetime(row["date"]))
                d2 == AssignColumn(d1, "time", LAMBDA row : ToTime(row["time"]))
                d3 == AssignColumn(d2, "year", LAMBDA row : DtYear(row["date"]))
                d4 == AssignColumn(d3, "month", LAMBDA row : DtMonth(row["date"]))
                d5 == AssignColumn(d4, "day_of_week", LAMBDA row : DtDayName(row["date"]))
                d6 == AssignColumn(d5, "hour", LAMBDA row : HourOf(row["time"]))
            IN /\ raw_combined' = d6
               /\ pc' = "standardize"
               /\ UNCHANGED <<error, files, frames, raw_info, total_raw_rows, raw_columns,
                              missingness_city, overall_miss, cols_to_drop,
                              n_outcome_missing, cleaned, out_csv, md>>

\* the loop over bool_cols, from column k on
RECURSIVE CoerceBoolCols(_, _)
CoerceBoolCols(df, k) ==
    IF k > Len(bool_cols) THEN df
    ELSE CoerceBoolCols(AssignColumn(df, bool_cols[k],
                                     LAMBDA row : CoerceBool(row[bool_cols[k]])), k + 1)

\* 4. categorical and boolean columns are standardized
StandardizeCategoricals ==
    /\ pc = "standardize"
    /\ IF ~Needs(raw_combined, {"subject_race", "subject_sex", "reason_for_stop", "outcome"}
                               \cup SeqSet(bool_cols))
       THEN Raise("KeyError")
       ELSE LET d1 == AssignColumn(raw_combined, "subject_race",
                                   LAMBDA row : NormRace(row["subject_race"]))
                d2 == AssignColumn(d1, "subject_sex", LAMBDA row : NormSex(row["subject_sex"]))
                d3 == AssignColumn(d2, "reason_for_stop",
                                   LAMBDA row : NormReason(row["reason_for_stop"]))
                d4 == AssignColumn(d3, "outcome", LAMBDA row : NormOutcome(row["outcome"]))
            IN /\ raw_combined' = CoerceBoolCols(d4, 1)
               /\ pc' = "missingness"
               /\ UNCHANGED <<error, files, frames, raw_info, total_raw_rows, raw_columns,
                              missingness_city, overall_miss, cols_to_drop,
                              n_outcome_missing, cleaned, out_csv, md>>

\* the missing rate of every column of df
MissRates(df) == [c \in SeqSet(df.columns) |-> MissRate(df, c)]

\* 5. missing rates, per city and overall
ComputeMissingness ==
    /\ pc = "missingness"
    /\ missingness_city' = [city \in CitySet |-> MissRates(CitySubset(raw_combined, city))]
    /\ overall_miss' = MissRates(raw_combined)
    /\ pc' = "drop"
    /\ UNCHANGED <<error, files, frames, raw_info, raw_combined, total_raw_rows,
                   raw_columns, cols_to_drop, n_outcome_missing, cleaned, out_csv, md>>

\* overall_miss[overall_miss > 50].index.tolist()
ColsToDrop(df, miss) == FilterSeq(df.columns, LAMBDA i : ExceedsThreshold(miss[df.columns[i]]))

\* 5. the columns above the threshold are dropped
DropColumns ==
    /\ pc = "drop"
    /\ cols_to_drop' = ColsToDrop(raw_combined, overall_miss)
    /\ raw_combined' = DropFrom(raw_combined, ColsToDrop(raw_combined, overall_miss))
    /\ pc' = "flag"
    /\ UNCHANGED <<error, files, frames, raw_info, total_raw_rows, raw_columns,
                   missingness_city, overall_miss, n_outcome_missing, cleaned, out_csv, md>>

\* 5. rows without an outcome are flagged
FlagOutcomeMissing ==
    /\ pc = "flag"
    /\ IF ~Needs(raw_combined, {"outcome"}) THEN Raise("KeyError")
       ELSE LET df == AssignColumn(raw_combined, "outcome_missing",
                                   LAMBDA row : OutcomeMissing(row["outcome"]))
            IN /\ raw_combined' = df
               /\ n_outcome_missing' = CountWhere(df, "outcome_missing", IsTrue)
               /\ pc' = "arrested"
               /\ UNCHANGED <<error, files, frames, raw_info, total_raw_rows, raw_columns,
                              missingness_city, overall_miss, cols_to_drop, cleaned,
                              out_csv, md>>

\* 6. the binary arrested variable
DeriveArrested ==
    /\ pc = "arrested"
    /\ IF ~Needs(raw_combined, {"arrest_made", "outcome"}) THEN Raise("KeyError")
       ELSE /\ raw_combined' =
                 AssignColumn(raw_combined, "arrested",
                              LAMBDA row : Arrested(row["arrest_made"], row["outcome"]))
            /\ pc' = "filter"
            /\ UNCHANGED <<error, files, frames, raw_info, total_raw_rows, raw_columns,
                           missingness_city, overall_miss, cols_to_drop,
                           n_outcome_missing, cleaned, out_csv, md>>

\* [c for c in raw_combined.columns if c in keep_cols]: the table's order
KeptColsTableOrder(df) == FilterSeq(df.columns, LAMBDA i : df.columns[i] \in SeqSet(keep_cols))

\* [c for c in keep_cols if c in raw_combined.columns]
KeptCols(df) == FilterSeq(keep_cols, LAMBDA i : HasCol(df, keep_cols[i]))

\* 7. the relevant columns are kept
FilterColumns ==
    /\ pc = "filter"
    /\ cleaned' = Project(raw_combined, KeptCols(raw_combined))
    /\ pc' = "save"
    /\ UNCHANGED <<error, files, frames, raw_info, raw_combined, total_raw_rows,
                   raw_columns, missingness_city, overall_miss, cols_to_drop,
                   n_outcome_missing, out_csv, md>>

\* 8. the cleaned table is written
SaveCsv ==
    /\ pc = "save"
    /\ out_csv' = [written |-> TRUE, table |-> cleaned]
    /\ pc' = "summary"
    /\ UNCHANGED <<error, files, frames, raw_info, raw_combined, total_raw_rows,
                   raw_columns, missingness_city, overall_miss, cols_to_drop,
                   n_outcome_missing, cleaned, md>>

\* Series.value_counts(): value -> number of rows, for the values that occur
ValueCounts(df, name) ==
    LET vals == {Cell(df, b, name) : b \in 1..Len(df.blocks)}
    IN [v \in vals |-> CountWhere(df, name, LAMBDA c : c = v)]

\* 9, 10. the summary is printed and cleaning_summary.md written
WriteSummary ==
    /\ pc = "summary"
    /\ IF ~Needs(cleaned, {"subject_race", "city", "outcome", "subject_sex", "arrested"})
       THEN Raise("KeyError")
       ELSE /\ md' = [written |-> TRUE,
                      raw_summary |-> [city \in DOMAIN raw_info |->
                                        <<raw_info[city].rows, Len(raw_info[city].columns)>>],
                      total_raw_rows |-> total_raw_rows,
                      raw_columns |-> raw_columns,
                      miss_table |-> missingness_city,
                      dropped |-> [i \in 1..Len(cols_to_drop) |->
                                     <<cols_to_drop[i], overall_miss[cols_to_drop[i]]>>],
                      n_outcome_missing |-> n_outcome_missing,
                      shape |-> <<NRows(cleaned), Len(cleaned.columns)>>,
                      columns |-> cleaned.columns,
                      final_miss |-> MissRates(cleaned),
                      race_vc |-> ValueCounts(cleaned, "subject_race"),
                      city_vc |-> ValueCounts(cleaned, "city"),
                      outcome_vc |-> ValueCounts(cleaned, "outcome"),
                      sex_vc |-> ValueCounts(cleaned, "subject_sex"),
                      arr_vc |-> ValueCounts(cleaned, "arrested")]
            /\ pc' = "done"
            /\ UNCHANGED <<error, files, frames, raw_info, raw_combined, total_raw_rows,
                           raw_columns, missingness_city, overall_miss, cols_to_drop,
                           n_outcome_missing, cleaned, out_csv>>

Next ==
    \/ LoadFiles
    \/ Combine
    \/ StandardizeNames
    \/ ParseTemporal
    \/ StandardizeCategoricals
    \/ ComputeMissingness
    \/ DropColumns
    \/ FlagOutcomeMissing
    \/ DeriveArrested
    \/ FilterColumns
    \/ SaveCsv
    \/ WriteSummary


(***************************************************************************)
(* Inputs.  A run starts with the city files on disk; the script reads     *)
(* them and nothing else.                                                  *)
(***************************************************************************)
MaxBlocks == 2
BigBlock == 5000

\* a typical row of a city file, aligned with RawSchema
BaseTokens ==
    <<"1", "2015-06-15", "14:30:00", "100 Main St", "Wake County", "34",
      "white", "male", "a1b2c3", "Raleigh Police Department", "vehicular",
      "FALSE", "TRUE", "FALSE", "citation",
      "NA", "NA", "NA",
      "FALSE", "FALSE", "FALSE", "FALSE",
      "NA", "NA", "NA", "Speed Limit Violation",
      "N", "W", "Citation Issued">>

\* the base row with the tokens of the record o in place of its own
TokenRow(o) ==
    [i \in 1..Len(RawSchema) |->
       IF RawSchema[i] \in DOMAIN o THEN o[RawSchema[i]] ELSE BaseTokens[i]]

\* rows whose arrest indicator is known, with and without the optional cells
RowPool ==
    { TokenRow([k \in {} |-> ""]),
      TokenRow([arrest_made |-> "TRUE", outcome |-> "warning", subject_race |-> "Asian",
                subject_sex |-> "", date |-> "2012-02-29", time |-> "00:05:09",
                reason_for_stop |-> "  seat belt violation ", search_conducted |-> "TRUE",
                contraband_found |-> "TRUE", search_basis |-> "consent"]),
      TokenRow([arrest_made |-> "TRUE", outcome |-> "Arrest - Felony",
                subject_race |-> "Other/Unknown", subject_sex |-> "F", date |-> "NA",
                time |-> "NA", subject_age |-> "NA", reason_for_stop |-> "NA",
                search_conducted |-> "NA", contraband_found |-> "false"]),
      TokenRow([arrest_made |-> "FALSE", outcome |-> "arrest", subject_race |-> " BLACK ",
                subject_sex |-> "Female", date |-> "2015-02-30", time |-> "07:45:10",
                subject_age |-> "", search_conducted |-> "", contraband_found |-> ""]) }

\* rows whose tokens are unusual: missing, padded, oddly cased, unmapped,
\* unparsable
TokenPool ==
    { TokenRow([arrest_made |-> "unknown", outcome |-> " NA ", subject_race |-> "Martian",
                subject_sex |-> "nan", date |-> "", time |-> "", subject_age |-> "",
                reason_for_stop |-> " na ", search_conducted |-> "", contraband_found |-> "0",
                citation_issued |-> "NA", warning_issued |-> "yes", frisk_performed |-> "F",
                search_person |-> " NA ", search_vehicle |-> "NaN", location |-> "NA"]),
      TokenRow([arrest_made |-> "false", outcome |-> "", subject_race |-> "",
                subject_sex |-> "NA", time |-> "12:30", subject_age |-> "NA",
                reason_for_stop |-> "NA", search_conducted |-> "n/a",
                contraband_found |-> " false", citation_issued |-> "True",
                warning_issued |-> "FALSE ", contraband_drugs |-> "TRUE",
                contraband_weapons |-> "False"]),
      TokenRow([arrest_made |-> " true ", outcome |-> "Written Warning",
                subject_race |-> "Pacific Islander", subject_sex |-> "M",
                date |-> "2000-01-01", time |-> "23:59:59",
                reason_for_stop |-> "o'neil rd checkpoint", search_conducted |-> "True",
                contraband_found |-> "T", frisk_performed |-> "tRuE",
                search_person |-> "1", search_vehicle |-> "TRUE"]),
      TokenRow([arrest_made |-> "NA", outcome |-> "Under ARREST", subject_race |-> "hispanic",
                subject_sex |-> " female", date |-> "not a date", time |-> "9:05:00",
                subject_age |-> "17", reason_for_stop |-> "INVESTIGATION",
                search_conducted |-> "false", contraband_found |-> "TRUE"]) }

\* rows for tables of many rows: one complete, one with the optional cells missing
LargePool ==
    { TokenRow([contraband_found |-> "FALSE"]),
      TokenRow([date |-> "NA", subject_age |-> "NA", search_conducted |-> "NA"]) }

\* the header of the city files as distributed, and the same names as a
\* spreadsheet export writes them ("Subject Race")
TitledSchema == [i \in 1..Len(RawSchema) |-> StrTitle(StrReplaceChar(RawSchema[i], "_", " "))]

\* the blocks placed in file k, in input order
FileBlocks(k, place, rows, counts) ==
    FilterSeq([i \in 1..Len(place) |-> [n |-> counts[i], tokens |-> rows[i]]],
              LAMBDA i : place[i] = k)

\* the files of a run: blocks of rows spread over the cities in file order;
\* every file exists, but the one named by missing
FilesOf(header, place, rows, counts, missing) ==
    [city \in CitySet |->
       [exists |-> city # missing,
        header |-> header,
        blocks |-> FileBlocks(ColIndex(Cities, city), place, rows, counts)]]

\* A run starts with up to MaxBlocks blocks of rows of the pool on disk.  When
\* a file is missing the run ends before any cell is used, so the other files
\* then hold base rows only.
InitWith(Pool, Counts, Missing, header) ==
    /\ \E n \in 0..MaxBlocks :
         \E place \in {q \in [1..n -> 1..Len(Cities)] :
                         \A i \in 1..n, k \in 1..n : i <= k => q[i] <= q[k]} :
           \E missing \in Missing :
             \E rows \in [1..n -> IF missing = "none" THEN Pool ELSE {BaseTokens}],
                counts \in [1..n -> Counts] :
               files = FilesOf(header, place, rows, counts, missing)
    /\ pc = "load"
    /\ error = "none"
    /\ frames = <<>>
    /\ raw_info = NoMap
    /\ raw_combined = EmptyFrame
    /\ total_raw_rows = 0
    /\ raw_columns = <<>>
    /\ missingness_city = NoMap
    /\ overall_miss = NoMap
    /\ cols_to_drop = <<>>
    /\ n_outcome_missing = 0
    /\ cleaned = EmptyFrame
    /\ out_csv = NoFile
    /\ md = NoFile

Init == InitWith(RowPool, {1}, {"none"} \cup CitySet, RawSchema)

Spec == Init /\ [][Next]_vars

InitTokens == InitWith(TokenPool, {1}, {"none"} \cup CitySet, TitledSchema)

SpecTokens == InitTokens /\ [][Next]_vars

InitLarge == InitWith(LargePool, {1, BigBlock, BigBlock + 1}, {"none"} \cup CitySet, RawSchema)

SpecLarge == InitLarge /\ [][Next]_vars


(***************************************************************************)
(* Properties of the pipeline.                                             *)
(***************************************************************************)
\* the rows on disk in the order the script reads them, each with its source
RECURSIVE InputFrom(_)
InputFrom(k) ==
    IF k > Len(Cities) THEN <<>>
    ELSE [b \in 1..Len(files[Cities[k]].blocks) |->
            [n |-> files[Cities[k]].blocks[b].n,
             tokens |-> files[Cities[k]].blocks[b].tokens,
             city |-> Cities[k]]]
         \o InputFrom(k + 1)

InputBlocks == InputFrom(1)

\* the token of a column in an input row (the files share the schema)
Token(ib, col) == ib.tokens[ColIndex(RawSchema, col)]

AllLoaded == \A city \in CitySet : files[city].exists

\* the working table holds every column, normalized and coerced
Coerced == pc \in {"missingness", "drop"}

\* the final table exists
HasOutput == pc \in {"save", "summary", "done"}

Blocks(df) == 1..Len(df.blocks)

\* the text holds "arrest" in any case
SaysArrest(c) ==
    c.t = "str" /\ \E i \in 1..(Len(c.v) - 5) : StrLower(SubSeq(c.v, i, i + 5)) = "arrest"

C2_OverHalfMissingAbsent ==
    HasOutput =>
        \A c \in SeqSet(cleaned.columns) :
            2 * CountWhere(cleaned, c, IsNull) <= NRows(cleaned)

\* C3: when every file loads, no cell value makes the run abort: it writes
\* the cleaned table and the report.
C3_OnlyLoadFailureIsFatal ==
    AllLoaded => /\ pc # "aborted"
                 /\ pc = "done" => (out_csv.written /\ md.written)

\* the coerced cell is true iff the trimmed uppercased token is TRUE, false
\* iff it is FALSE, missing otherwise
AgreesWithToken(cell, tok) ==
    LET text == StrUpper(StrStrip(tok))
    IN /\ IsTrue(cell) <=> text = "TRUE"
       /\ (cell.t = "bool" /\ ~cell.v) <=> text = "FALSE"
       /\ IsNull(cell) <=> text \notin {"TRUE", "FALSE"}

\* C4: every boolean column is coerced token by token (true iff TRUE, false
\* iff FALSE after trim and uppercase, missing otherwise), and in the final
\* table search_conducted and contraband_found are false only for the token
\* FALSE.
C4_BoolCoercion ==
    /\ Coerced =>
         \A b \in Blocks(raw_combined), col \in SeqSet(bool_cols) :
             AgreesWithToken(Cell(raw_combined, b, col), Token(InputBlocks[b], col))
    /\ HasOutput =>
         \A b \in Blocks(cleaned),
            col \in {"search_conducted", "contraband_found"} \cap SeqSet(cleaned.columns) :
             AgreesWithToken(Cell(cleaned, b, col), Token(InputBlocks[b], col))

\* the final table holds search_conducted with an unknown cell beside a false one
C4_Witness ==
    /\ HasOutput
    /\ HasCol(cleaned, "search_conducted")
    /\ \E b \in Blocks(cleaned) :
         /\ IsNull(Cell(cleaned, b, "search_conducted"))
         /\ Token(InputBlocks[b], "search_conducted") = "n/a"
    /\ \E b \in Blocks(cleaned) :
         /\ Cell(cleaned, b, "search_conducted") = Bool(FALSE)
         /\ Token(InputBlocks[b], "search_conducted") = "false"

RaceVocabulary == {"white", "black", "hispanic", "asian/pacific islander", "other", "unknown"}
SexVocabulary == {"male", "female", "unknown"}

\* the value a lookup table gives to a token: the entry of its trimmed
\* lowercased text, "unknown" without one or for a missing token
Looked(tok, map) ==
    LET key == StrLower(StrStrip(tok))
    IN IF tok \notin NaValues /\ key \in DOMAIN map THEN map[key] ELSE "unknown"

\* C5: in the final table subject_race and subject_sex are values of their
\* closed vocabularies, the lookup entry of the trimmed lowercased input and
\* unknown for everything else.
C5_ClosedVocabulary ==
    HasOutput =>
        \A b \in Blocks(cleaned) :
            LET race == Cell(cleaned, b, "subject_race")
                sex == Cell(cleaned, b, "subject_sex")
            IN /\ race.t = "str" /\ race.v \in RaceVocabulary
               /\ sex.t = "str" /\ sex.v \in SexVocabulary
               /\ race.v = Looked(Token(InputBlocks[b], "subject_race"), race_map)
               /\ sex.v = Looked(Token(InputBlocks[b], "subject_sex"), sex_map)

\* an unmapped race and a missing sex came out as unknown, beside a padded or
\* abbreviated value that was mapped
C5_Witness ==
    /\ HasOutput
    /\ \E b \in Blocks(cleaned) :
         /\ Token(InputBlocks[b], "subject_race") = "Martian"
         /\ Token(InputBlocks[b], "subject_sex") = "nan"
         /\ Cell(cleaned, b, "subject_race").v = "unknown"
         /\ Cell(cleaned, b, "subject_sex").v = "unknown"
    /\ \E b \in Blocks(cleaned) :
         /\ Token(InputBlocks[b], "subject_race") = "Pacific Islander"
         /\ Cell(cleaned, b, "subject_race").v = "asian/pacific islander"
         /\ Cell(cleaned, b, "subject_sex").v = "male"

\* the sum of raw_info's row counts over the cities
RECURSIVE RawInfoRows(_)
RawInfoRows(k) == IF k > Len(Cities) THEN 0 ELSE raw_info[Cities[k]].rows + RawInfoRows(k + 1)

\* the normalized outcome of an input row, from its token
OutcomeOf(ib) ==
    IF Token(ib, "outcome") \in NaValues THEN "nan"
    ELSE StrLower(StrStrip(Token(ib, "outcome")))

\* the table holds the input rows, one block per input block, in the order
\* of the files and of the rows in them, each tagged with its source city
SameRowsAsInput(df) ==
    /\ Len(df.blocks) = Len(InputBlocks)
    /\ \A b \in Blocks(df) :
         /\ df.blocks[b].n = InputBlocks[b].n
         /\ Cell(df, b, "city") = Str(InputBlocks[b].city)

\* C6: no step adds, deletes or reorders rows: the output has one row per
\* input row, in source order and input order, and every row keeps the city
\* tag it was given at load time.
C6_RowsPreserved ==
    /\ pc \notin {"load", "aborted"} =>
         \A k \in 1..Len(Cities) :
             \A b \in Blocks(frames[k]) : Cell(frames[k], b, "city") = Str(Cities[k])
    /\ pc \notin {"load", "concat", "aborted"} => SameRowsAsInput(raw_combined)
    /\ HasOutput =>
         /\ SameRowsAsInput(cleaned)
         /\ NRows(cleaned) = RawInfoRows(1)
         /\ NRows(cleaned) = total_raw_rows
         /\ \A b \in Blocks(cleaned) : Cell(cleaned, b, "outcome").v = OutcomeOf(InputBlocks[b])

\* two rows of different cities, with different outcomes, came out in file order
C6_Witness ==
    /\ HasOutput
    /\ Len(cleaned.blocks) = 2
    /\ Cell(cleaned, 1, "city") = Str("Durham")
    /\ Cell(cleaned, 2, "city") = Str("Raleigh")
    /\ Cell(cleaned, 1, "outcome").v = "arrest"
    /\ Cell(cleaned, 2, "outcome").v = "warning"

\* C7 as stated: two records with the same known arrest_made value get the
\* same arrested value whatever their outcome text.
C7_KnownIndicatorDecides ==
    HasOutput =>
        \A b1, b2 \in Blocks(cleaned) :
            LET made1 == Cell(raw_combined, b1, "arrest_made")
                made2 == Cell(raw_combined, b2, "arrest_made")
            IN (made1.t = "bool" /\ made2.t = "bool" /\ made1.v = made2.v)
               => Cell(cleaned, b1, "arrested") = Cell(cleaned, b2, "arrested")

\* C7 amended: the outcome text decides for every record whose coerced
\* arrest_made is not true (false or missing); two records whose arrest_made
\* is true get the same arrested value, 1, whatever their outcome text.
C7_TrueIndicatorDecides ==
    HasOutput =>
        /\ \A b1, b2 \in Blocks(cleaned) :
             (IsTrue(Cell(raw_combined, b1, "arrest_made"))
                /\ IsTrue(Cell(raw_combined, b2, "arrest_made")))
             => /\ Cell(cleaned, b1, "arrested") = Cell(cleaned, b2, "arrested")
                /\ Cell(cleaned, b1, "arrested") = Num(1)
        /\ \A b \in Blocks(cleaned) :
             ~IsTrue(Cell(raw_combined, b, "arrest_made"))
             => (Cell(cleaned, b, "arrested") = Num(1)
                   <=> SaysArrest(Cell(cleaned, b, "outcome")))

\* two records with a true indicator, the outcome of one an arrest and of the
\* other a warning, both counted as arrests
C7_Witness ==
    /\ HasOutput
    /\ \E b1, b2 \in Blocks(cleaned) :
         /\ IsTrue(Cell(raw_combined, b1, "arrest_made"))
         /\ IsTrue(Cell(raw_combined, b2, "arrest_made"))
         /\ SaysArrest(Cell(cleaned, b1, "outcome"))
         /\ ~SaysArrest(Cell(cleaned, b2, "outcome"))
         /\ Cell(cleaned, b1, "arrested") = Num(1)
         /\ Cell(cleaned, b2, "arrested") = Num(1)

\* C8: the columns of the final table are the allow-list without the dropped
\* columns, in the order of the allow-list, and a dropped column of the list
\* raises no error.
C8_ColumnSequence ==
    /\ HasOutput =>
         /\ cleaned.columns =
                FilterSeq(keep_cols, LAMBDA i : keep_cols[i] \notin SeqSet(cols_to_drop))
         /\ error = "none"
    /\ pc = "filter" => ENABLED FilterColumns

\* a final table that lacks dropped columns of the allow-list
C8_Witness ==
    /\ pc = "done"
    /\ {"date", "subject_age", "contraband_found", "year"} \subseteq SeqSet(cols_to_drop)
    /\ cleaned.columns = <<"time", "city", "subject_race", "subject_sex", "reason_for_stop",
                           "outcome", "arrested", "hour", "outcome_missing">>

WeekdayNames ==
    {"Monday", "Tuesday", "Wednesday", "Thursday", "Friday", "Saturday", "Sunday"}

\* the temporal features of one row agree with its parsed date and time
TemporalAgree(date, time, year, month, day, hour) ==
    /\ IsNull(year) <=> IsNull(date)
    /\ IsNull(month) <=> IsNull(date)
    /\ IsNull(day) <=> IsNull(date)
    /\ IsNull(hour) <=> IsNull(time)
    /\ ~IsNull(date) => /\ year = Num(date.v[1])
                        /\ month = Num(date.v[2])
                        /\ month.v \in 1..12
                        /\ day.t = "str" /\ day.v \in WeekdayNames
    /\ ~IsNull(time) => /\ hour = Num(time.v[1])
                        /\ hour.v \in 0..23

\* the temporal features have been derived and no column dropped yet
Parsed == pc \in {"standardize", "missingness", "drop"}

\* C9: year, month and day_of_week are missing exactly when the parsed date
\* is, hour exactly when the parsed time is (never 0 by default); present,
\* month is in 1..12, hour in 0..23 and day_of_week a full weekday name.
C9_TemporalFeatures ==
    /\ Parsed =>
         \A b \in Blocks(raw_combined) :
             LET row == raw_combined.blocks[b].row
             IN TemporalAgree(row["date"], row["time"], row["year"], row["month"],
                              row["day_of_week"], row["hour"])
    /\ HasOutput =>
         /\ \A c \in {"year", "month", "day_of_week"} :
                HasCol(cleaned, c) <=> HasCol(cleaned, "date")
         /\ HasCol(cleaned, "hour") <=> HasCol(cleaned, "time")
         /\ \A b \in Blocks(cleaned) :
                LET row == cleaned.blocks[b].row
                    at(c) == IF HasCol(cleaned, c) THEN row[c] ELSE NaN
                IN TemporalAgree(at("date"), at("time"), at("year"),
                                 at("month"), at("day_of_week"), at("hour"))

\* the final table holds a row with a date and no hour beside a row with an
\* hour, written with one digit, and no date
C9_Witness ==
    /\ HasOutput
    /\ Needs(cleaned, {"date", "time", "year", "month", "day_of_week", "hour"})
    /\ \E b \in Blocks(cleaned) :
         /\ Cell(cleaned, b, "day_of_week") = Str("Monday")
         /\ Cell(cleaned, b, "year") = Num(2015)
         /\ IsNull(Cell(cleaned, b, "hour"))
    /\ \E b \in Blocks(cleaned) :
         /\ IsNull(Cell(cleaned, b, "month"))
         /\ Cell(cleaned, b, "hour") = Num(9)

AlwaysFilled == {"city", "subject_race", "subject_sex", "reason_for_stop", "outcome"}

\* overall_miss has been computed
Analyzed == DOMAIN overall_miss # {}

NoNullIn(df, cols) == \A b \in Blocks(df) : \A c \in cols : ~IsNull(Cell(df, b, c))

\* the parts of C10 that do not speak of the computed rate
FilledAndKept ==
    /\ pc = "missingness" => NoNullIn(raw_combined, AlwaysFilled)
    /\ Analyzed => \A c \in AlwaysFilled : ~ExceedsThreshold(overall_miss[c])
    /\ pc \in {"flag", "arrested", "filter"} \cup {"save", "summary", "done"} =>
         /\ AlwaysFilled \cap SeqSet(cols_to_drop) = {}
         /\ AlwaysFilled \subseteq SeqSet(raw_combined.columns)
    /\ HasOutput =>
         /\ AlwaysFilled \cup {"arrested", "outcome_missing"} \subseteq SeqSet(cleaned.columns)
         /\ NoNullIn(cleaned, AlwaysFilled \cup {"arrested", "outcome_missing"})

\* C10 as stated: when the Missingness Analyzer runs, city, subject_race,
\* subject_sex, reason_for_stop and outcome hold no missing cell, their
\* computed rate is 0 and they are never dropped; with arrested and
\* outcome_missing they are present and complete in every output.
C10_RateZero ==
    /\ FilledAndKept
    /\ Analyzed => \A c \in AlwaysFilled : overall_miss[c] = Num(0)

\* C10 amended: the same, the computed rate being 0 for a table with at
\* least one row and NaN (which is not above the threshold) for a table
\* without rows.
C10_RateZeroOrEmpty ==
    /\ FilledAndKept
    /\ Analyzed => \A c \in AlwaysFilled :
                      overall_miss[c] = IF total_raw_rows > 0 THEN Num(0) ELSE NaN

\* every input value of the four text columns was missing, and the final
\* table holds them complete
C10_Witness ==
    /\ HasOutput
    /\ NRows(cleaned) > 0
    /\ \A b \in Blocks(cleaned) :
         /\ \A c \in {"subject_race", "subject_sex", "reason_for_stop", "outcome"} :
                Token(InputBlocks[b], c) \in NaValues
         /\ Cell(cleaned, b, "subject_race") = Str("unknown")
         /\ Cell(cleaned, b, "subject_sex") = Str("unknown")
         /\ Cell(cleaned, b, "reason_for_stop") = Str("Unknown")
         /\ Cell(cleaned, b, "outcome") = Str("nan")
         /\ Cell(cleaned, b, "outcome_missing") = Bool(TRUE)

=============================================================================
